---- MODULE Spec2Model ----
(***************************************************************************)
(* SQL Humanizer (src/app.py): the freemium gate of a Streamlit page.      *)
(* A session holds free_queries_used, user_email and user_name; every      *)
(* user event re-runs main() from the top.  The license server, the        *)
(* payment-link service, the identity provider and the translation         *)
(* service are external: each call draws its answer from a bounded set.    *)
(***************************************************************************)
EXTENDS Integers, Sequences, FiniteSets, TLC

VARIABLES
    env,                \* process environment read at import (lines 18-27, 287)
    free_queries_used,  \* st.session_state.free_queries_used
    user_email,         \* st.session_state.user_email
    user_name,          \* st.session_state.user_name
    last_result,        \* st.session_state.last_result (only ever written by Clear)
    query_code,         \* st.query_params["code"]
    rerun_requested,    \* st.rerun() was raised: the script runs again at once
    run,                \* what the last run of main() did and showed
    issued,             \* authorization codes the identity provider has issued
    submitted,          \* codes posted to the token endpoint so far
    exchanged_ok,       \* codes whose exchange yielded an email
    resubmitted,        \* codes posted again after their exchange had succeeded
    free_attempts,      \* translate_sql calls made while not pro
    call                \* SpecFn only: the last direct call of a function

vars == <<env, free_queries_used, user_email, user_name, last_result, query_code,
          rerun_requested, run, issued, submitted, exchanged_ok, resubmitted,
          free_attempts, call>>

session_vars == <<free_queries_used, user_email, user_name, last_result, query_code,
                  rerun_requested, run, issued, submitted, exchanged_ok, resubmitted,
                  free_attempts>>

----------------------------------------------------------------------------
(* Bounds *)

\* longest text a user or a service supplies
MaxLen == 2
\* authorization codes the identity provider issues in one session
MaxCodes == 2
\* longest text typed into the SQL box
MaxQueryLen == 1

----------------------------------------------------------------------------
(* Python values: str as a sequence of characters, None, truthiness, strip *)

SP == " "

Chars == {SP, "a"}

RECURSIVE TextsUpTo(_)
TextsUpTo(n) ==
    IF n = 0 THEN {<<>>}
    ELSE LET shorter == TextsUpTo(n - 1)
         IN  shorter \cup {Append(t, c) : t \in {s \in shorter : Len(s) = n - 1}, c \in Chars}

Texts == TextsUpTo(MaxLen)

None == [some |-> FALSE]

Some(v) == [some |-> TRUE, val |-> v]

\* Python truthiness of an optional str: None and "" are falsy
Truthy(x) == x.some /\ x.val # <<>>

RECURSIVE LStrip(_)
LStrip(t) == IF t # <<>> /\ Head(t) = SP THEN LStrip(Tail(t)) ELSE t

RECURSIVE RStripChar(_, _)
RStripChar(t, c) ==
    IF t # <<>> /\ t[Len(t)] = c THEN RStripChar(SubSeq(t, 1, Len(t) - 1), c) ELSE t

\* str.strip()
Strip(t) == RStripChar(LStrip(t), SP)

\* the `x or None` idiom on a str
OrNone(t) == IF t = <<>> THEN None ELSE Some(t)

\* str.lower(), token by token
LowerTok(c) == IF c = "Invalid" THEN "invalid" ELSE IF c = "API_KEY_INVALID" THEN "api_key_invalid" ELSE c

Lower(t) == [i \in 1..Len(t) |-> LowerTok(t[i])]

----------------------------------------------------------------------------
(* Configuration, lines 18-30 and 287 *)

FREE_TIER_MAX_QUERIES == 1

\* what an environment variable can hold: blank (unset reads the same once
\* stripped) or set
EnvVals == {<<SP>>, <<"a">>}

ServerEnvVals == {<<"/">>, <<"a", "/">>}

StaticUrl == <<"https://static">>

EnvSpace ==
    [GOOGLE_CLIENT_ID : EnvVals, GOOGLE_CLIENT_SECRET : EnvVals, REDIRECT_URI : EnvVals,
     LICENSE_SERVER_URL : ServerEnvVals, GEMINI_API_KEY : EnvVals]

RAZORPAY_UPGRADE_URL == StaticUrl

LICENSE_SERVER_URL == RStripChar(Strip(env.LICENSE_SERVER_URL), "/")

GOOGLE_CLIENT_ID == Strip(env.GOOGLE_CLIENT_ID)

GOOGLE_CLIENT_SECRET == Strip(env.GOOGLE_CLIENT_SECRET)

REDIRECT_URI == OrNone(Strip(env.REDIRECT_URI))

GEMINI_API_KEY == Strip(env.GEMINI_API_KEY)

----------------------------------------------------------------------------
(* JSON values as the services return them *)

JAbsent == [t |-> "absent"]
JNull == [t |-> "null"]
JBool(b) == [t |-> "bool", b |-> b]
JInt(n) == [t |-> "int", n |-> n]
JStr(s) == [t |-> "str", s |-> s]

\* dict.get(key) on a missing key gives None, as does a JSON null
IsPyNone(v) == v.t \in {"absent", "null"}

\* Python falsiness of a JSON value: None, False, 0, ""
JFalsy(v) ==
    \/ IsPyNone(v)
    \/ v.t = "bool" /\ ~v.b
    \/ v.t = "int" /\ v.n = 0
    \/ v.t = "str" /\ v.s = <<>>

\* an HTTP exchange: the transport fails, or a status and a body arrive;
\* the body fails to parse, parses to a non-object, or is an object
Unreachable == [net |-> "unreachable"]
TimedOut == [net |-> "timeout"]
Http(status, parse, fields) == [net |-> "ok", status |-> status, parse |-> parse, fields |-> fields]

\* urllib.request.urlopen raises HTTPError for 4xx and 5xx
UrlopenRaises(resp) == resp.net # "ok" \/ resp.status >= 400

----------------------------------------------------------------------------
(* What a function call gives back: it returns (no exception escapes its     *)
(* try/except) a value, having made io network requests.                     *)

Returned(v, n) == [raised |-> FALSE, ret |-> v, io |-> n]

OptTexts == {None} \cup {Some(t) : t \in Texts}

Statuses == {200, 204, 404, 500}

----------------------------------------------------------------------------
(* email_has_license, lines 33-50 *)

LicenseValidVals == {JAbsent, JNull, JBool(TRUE), JBool(FALSE), JInt(1), JStr(<<"true">>)}

LicenseResponses ==
    {Unreachable, TimedOut}
    \cup {Http(s, "object", [valid |-> JBool(TRUE)]) : s \in Statuses}
    \cup {Http(200, p, [valid |-> JAbsent]) : p \in {"error", "nonobject"}}
    \cup {Http(200, "object", [valid |-> v]) : v \in LicenseValidVals}

\* email_has_license_try with line 48 testing the truthiness of "valid"
\* where the source tests `is True`
email_has_license_try_truthy(email, resp) ==
    IF UrlopenRaises(resp) THEN "raise"
    ELSE IF resp.status # 200 THEN "False"
    ELSE IF resp.parse # "object" THEN "raise"
    ELSE IF ~JFalsy(resp.fields.valid) THEN "True"
    ELSE "False"

\* lines 38-48, the body of the try: "raise" or the value returned
email_has_license_try(email, resp) ==
    IF UrlopenRaises(resp) THEN "raise"                       \* line 44
    ELSE IF resp.status # 200 THEN "False"                    \* lines 45-46
    ELSE IF resp.parse = "error" THEN "raise"                 \* line 47, json.loads
    ELSE IF resp.parse # "object" THEN "raise"                \* line 48, no .get
    ELSE IF resp.fields.valid.t = "bool" /\ resp.fields.valid.b THEN "True"
    ELSE "False"                                              \* line 48, `is True`

email_has_license(email, resp) ==
    IF ~Truthy(email) \/ LICENSE_SERVER_URL = <<>>            \* lines 35-36
    THEN Returned(FALSE, 0)
    ELSE LET r == email_has_license_try(email, resp)
         IN  IF r = "raise" THEN Returned(FALSE, 1)           \* lines 49-50
             ELSE Returned(r = "True", 1)

----------------------------------------------------------------------------
(* get_payment_link_for_email, lines 53-72, and the fallback of lines 273-277 *)

GoodUrl == <<"https://pay">>

PaymentUrlVals ==
    {JAbsent, JNull, JInt(0), JInt(5), JBool(TRUE),
     JStr(<<>>), JStr(<<SP>>), JStr(<<"not a url">>), JStr(GoodUrl), JStr(<<SP, "https://pay", SP>>)}

PaymentResponses ==
    {Unreachable, TimedOut}
    \cup {Http(s, "object", [url |-> JStr(GoodUrl)]) : s \in Statuses}
    \cup {Http(200, p, [url |-> JAbsent]) : p \in {"error", "nonobject"}}
    \cup {Http(200, "object", [url |-> v]) : v \in PaymentUrlVals}

\* get_payment_link_try without the status test of lines 67-68
get_payment_link_try_any_status(email, resp) ==
    IF UrlopenRaises(resp) THEN [raise |-> TRUE]
    ELSE IF resp.parse # "object" THEN [raise |-> TRUE]
    ELSE LET u == resp.fields.url
         IN  IF JFalsy(u) THEN [raise |-> FALSE, v |-> None]
             ELSE IF u.t # "str" THEN [raise |-> TRUE]
             ELSE [raise |-> FALSE, v |-> OrNone(Strip(u.s))]

\* lines 58-70, the body of the try: [raise |-> TRUE] or the value returned
get_payment_link_try(email, resp) ==
    IF UrlopenRaises(resp) THEN [raise |-> TRUE]              \* line 66
    ELSE IF resp.status # 200 THEN [raise |-> FALSE, v |-> None]   \* lines 67-68
    ELSE IF resp.parse # "object" THEN [raise |-> TRUE]       \* line 69, line 70 .get
    ELSE LET u == resp.fields.url
         IN  IF JFalsy(u) THEN [raise |-> FALSE, v |-> None]  \* (None or "").strip() or None
             ELSE IF u.t # "str" THEN [raise |-> TRUE]        \* no .strip on a number
             ELSE [raise |-> FALSE, v |-> OrNone(Strip(u.s))]

get_payment_link_for_email(email, resp) ==
    IF ~Truthy(email) \/ LICENSE_SERVER_URL = <<>>            \* lines 55-56
    THEN Returned(None, 0)
    ELSE LET r == get_payment_link_try(email, resp)
         IN  IF r.raise THEN Returned(None, 1)                \* lines 71-72
             ELSE Returned(r.v, 1)

\* lines 273-277: the URL behind the Upgrade link
upgrade_url_for(email, resp) ==
    LET looked == IF Truthy(email) /\ LICENSE_SERVER_URL # <<>>
                  THEN get_payment_link_for_email(email, resp)
                  ELSE Returned(None, 0)
    IN  IF ~Truthy(looked.ret) THEN Returned(RAZORPAY_UPGRADE_URL, looked.io)
        ELSE Returned(looked.ret.val, looked.io)

----------------------------------------------------------------------------
(* translate_sql, lines 75-102 *)

ErrTexts == {<<>>, <<SP>>, <<"API_KEY_INVALID">>, <<"Invalid">>, <<SP, "quota">>}

\* generate_content raises, or gives no response object, or a response whose
\* .text is a str
ServiceResponses ==
    {[kind |-> "raise", err |-> e] : e \in ErrTexts}
    \cup {[kind |-> "none"]}
    \cup {[kind |-> "response", text |-> t] : t \in Texts}

\* `needle in tok` for the two needles of line 100
TokHas(tok, needle) ==
    \/ tok = needle
    \/ needle = "invalid" /\ tok = "api_key_invalid"

HasSub(t, needle) == \E i \in 1..Len(t) : TokHas(t[i], needle)

Pair(result, error) == [result |-> result, error |-> error]

MsgEnterQuery == <<"Please enter an SQL query.">>
MsgKeyMissing == <<"Gemini API key is missing.">>
MsgEmpty == <<"The model returned an empty response.">>
MsgKeyInvalid == <<"Invalid or missing Gemini API key.">>
MsgFailed(err) == <<"Translation failed: ">> \o err

\* lines 98-102
translate_sql_except(e) ==
    LET err == IF Strip(e) = <<>> THEN <<"Unknown error">> ELSE Strip(e)
    IN  IF HasSub(err, "API_KEY_INVALID") \/ HasSub(Lower(err), "invalid")
        THEN Pair(None, Some(MsgKeyInvalid))
        ELSE Pair(None, Some(MsgFailed(err)))

\* lines 94-97
translate_sql_response(svc) ==
    IF svc.kind = "response" /\ svc.text # <<>>               \* line 95: truthiness of .text
    THEN Pair(Some(Strip(svc.text)), None)                    \* line 96
    ELSE Pair(None, Some(MsgEmpty))                           \* line 97

translate_sql(query, api_key, svc) ==
    IF query = <<>> \/ Strip(query) = <<>>                    \* lines 80-81
    THEN [out |-> Pair(None, Some(MsgEnterQuery)), io |-> 0]
    ELSE IF api_key = <<>> \/ Strip(api_key) = <<>>           \* lines 82-83
    THEN [out |-> Pair(None, Some(MsgKeyMissing)), io |-> 0]
    ELSE IF svc.kind = "raise"
    THEN [out |-> translate_sql_except(svc.err), io |-> 1]
    ELSE [out |-> translate_sql_response(svc), io |-> 1]

----------------------------------------------------------------------------
(* _exchange_code_for_user, lines 118-151 *)

TokenVals == {JAbsent, JStr(<<>>), JStr(<<"tok">>)}

TokenResponses ==
    {Unreachable, Http(400, "object", [access_token |-> JStr(<<"tok">>)])}
    \cup {Http(200, p, [access_token |-> JAbsent]) : p \in {"error", "nonobject"}}
    \cup {Http(200, "object", [access_token |-> v]) : v \in TokenVals}

ProfileEmailVals == {JAbsent, JNull, JInt(5), JStr(<<SP>>), JStr(<<"a">>), JStr(<<SP, "a">>)}

ProfileNameVals == {JAbsent, JInt(5), JStr(<<"n">>)}

ProfileResponses ==
    {Unreachable, Http(401, "object", [email |-> JStr(<<"a">>), name |-> JStr(<<"n">>)])}
    \cup {Http(200, p, [email |-> JAbsent, name |-> JAbsent]) : p \in {"error", "nonobject"}}
    \cup {Http(200, "object", [email |-> e, name |-> n]) :
            e \in ProfileEmailVals, n \in ProfileNameVals}

User(email, name, io) == [email |-> email, name |-> name, io |-> io]

\* line 149, one field: (info.get(k) or "").strip() or None; raises when the
\* value has no .strip
profile_field(v) ==
    IF JFalsy(v) THEN [raise |-> FALSE, v |-> None]
    ELSE IF v.t # "str" THEN [raise |-> TRUE, v |-> None]
    ELSE [raise |-> FALSE, v |-> OrNone(Strip(v.s))]

\* exchange_profile without the status test of lines 146-147
exchange_profile_any_status(u) ==
    IF u.net # "ok" THEN User(None, None, 2)
    ELSE IF u.parse # "object" THEN User(None, None, 2)
    ELSE LET e == profile_field(u.fields.email)
             n == profile_field(u.fields.name)
         IN  IF e.raise \/ n.raise THEN User(None, None, 2)
             ELSE User(e.v, n.v, 2)

\* lines 141-149; requests does not raise on a 4xx or 5xx status
exchange_profile(u) ==
    IF u.net # "ok" THEN User(None, None, 2)                  \* lines 150-151
    ELSE IF u.status # 200 THEN User(None, None, 2)           \* lines 146-147
    ELSE IF u.parse # "object" THEN User(None, None, 2)       \* line 148, line 149 .get
    ELSE LET e == profile_field(u.fields.email)
             n == profile_field(u.fields.name)
         IN  IF e.raise \/ n.raise THEN User(None, None, 2)   \* lines 150-151
             ELSE User(e.v, n.v, 2)

\* lines 124-140
exchange_token(r) ==
    IF r.net # "ok" THEN "fail"                               \* lines 150-151
    ELSE IF r.status # 200 THEN "fail"                        \* lines 136-137
    ELSE IF r.parse # "object" THEN "fail"                    \* line 138
    ELSE IF JFalsy(r.fields.access_token) THEN "fail"         \* lines 139-140
    ELSE "token"

exchange_code_for_user(code, r, u) ==
    IF GOOGLE_CLIENT_ID = <<>> \/ GOOGLE_CLIENT_SECRET = <<>> \/ ~Truthy(REDIRECT_URI)
    THEN User(None, None, 0)                                  \* lines 120-121
    ELSE IF exchange_token(r) = "fail" THEN User(None, None, 1)
    ELSE exchange_profile(u)

\* a request that was never made
NotCalled == [net |-> "not called"]

\* an exchange: what the two endpoints answered (NotCalled when the function
\* returned before asking) and what the function returned
Exchange(r, u, user) == [called |-> TRUE, token |-> r, profile |-> u, user |-> user]

NoExchange == [called |-> FALSE, token |-> NotCalled, profile |-> NotCalled,
               user |-> User(None, None, 0)]

ExchangeOutcomes(code) ==
    {LET user == exchange_code_for_user(code, r, u)
     IN  Exchange(IF user.io >= 1 THEN r ELSE NotCalled,
                  IF user.io >= 2 THEN u ELSE NotCalled, user) :
        r \in TokenResponses, u \in ProfileResponses}

----------------------------------------------------------------------------
(* The answers a run of main() can get from the services it calls *)

\* line 264
is_pro_of(email, resp) ==
    IF Truthy(email) THEN email_has_license(email, resp) ELSE Returned(FALSE, 0)

LicenseOutcomes(email) == {is_pro_of(email, resp) : resp \in LicenseResponses}

UpgradeOutcomes(email) == {upgrade_url_for(email, resp) : resp \in PaymentResponses}

TranslateOutcomes(query, api_key) == {translate_sql(query, api_key, svc) : svc \in ServiceResponses}

----------------------------------------------------------------------------
(* One run of main(), lines 154-340 *)

\* what a run did and showed; every run starts from this record.  url_code is
\* the "code" query parameter the run starts with.
Fresh(ev, url_code) ==
    [event |-> ev, url_code |-> url_code, screen |-> "none", posted |-> None,
     exchange |-> NoExchange, display |-> "none",
     is_pro |-> FALSE, license_io |-> 0, payment_io |-> 0,
     clicked |-> FALSE, sql_query |-> <<>>, blocked |-> FALSE, attempted |-> FALSE,
     notice |-> FALSE, signout_shown |-> FALSE]

\* the bookkeeping of the identity provider's codes
Provider(r, ok) ==
    /\ submitted' = IF r.posted.some THEN submitted \cup {r.posted.val} ELSE submitted
    /\ resubmitted' = IF r.posted.some /\ r.posted.val \in exchanged_ok
                      THEN resubmitted \cup {r.posted.val} ELSE resubmitted
    /\ exchanged_ok' = IF ok THEN exchanged_ok \cup {r.posted.val} ELSE exchanged_ok

\* login_succeeded without the query_params.clear() of line 180
login_succeeded_keeping_code(r, u) ==
    /\ user_email' = u.email
    /\ user_name' = IF Truthy(u.name) THEN u.name ELSE u.email
    /\ query_code' = r.url_code
    /\ rerun_requested' = TRUE
    /\ run' = [r EXCEPT !.screen = "rerun"]
    /\ Provider(r, TRUE)
    /\ UNCHANGED <<free_queries_used, last_result, free_attempts>>

\* lines 176-181: the exchange gave an email
login_succeeded(r, u) ==
    /\ user_email' = u.email                                  \* line 177
    /\ user_name' = IF Truthy(u.name) THEN u.name ELSE u.email   \* line 178
    /\ query_code' = None                                     \* line 180
    /\ rerun_requested' = TRUE                                \* line 181
    /\ run' = [r EXCEPT !.screen = "rerun"]
    /\ Provider(r, TRUE)
    /\ UNCHANGED <<free_queries_used, last_result, free_attempts>>

\* lines 184-185
use_google_login == GOOGLE_CLIENT_ID # <<>> /\ Truthy(REDIRECT_URI)

\* login_wall asking for the client secret too, as line 120 does
login_wall_needing_secret ==
    use_google_login /\ GOOGLE_CLIENT_SECRET # <<>> /\ ~Truthy(user_email)

login_wall == use_google_login /\ ~Truthy(user_email)

\* lines 186-190: the login screen, then st.stop()
show_login(r) ==
    /\ run' = [r EXCEPT !.screen = "login"]
    /\ rerun_requested' = FALSE
    /\ query_code' = r.url_code
    /\ Provider(r, FALSE)
    /\ UNCHANGED <<free_queries_used, user_email, user_name, last_result, free_attempts>>

\* sign_out resetting the whole session, the free-query counter included
sign_out_resetting(r) ==
    /\ user_email' = None
    /\ user_name' = None
    /\ free_queries_used' = 0
    /\ rerun_requested' = TRUE
    /\ query_code' = r.url_code
    /\ run' = [r EXCEPT !.screen = "rerun", !.signout_shown = TRUE]
    /\ Provider(r, FALSE)
    /\ UNCHANGED <<last_result, free_attempts>>

\* lines 257-260
sign_out(r) ==
    /\ user_email' = None
    /\ user_name' = None
    /\ rerun_requested' = TRUE
    /\ query_code' = r.url_code
    /\ run' = [r EXCEPT !.screen = "rerun", !.signout_shown = TRUE]
    /\ Provider(r, FALSE)
    /\ UNCHANGED <<free_queries_used, last_result, free_attempts>>

\* lines 299-301
clear(r) ==
    /\ last_result' = None
    /\ rerun_requested' = TRUE
    /\ query_code' = r.url_code
    /\ run' = [r EXCEPT !.screen = "rerun"]
    /\ Provider(r, FALSE)
    /\ UNCHANGED <<free_queries_used, user_email, user_name, free_attempts>>

\* gate_blocks comparing with > where line 306 has >=
gate_blocks_strict(is_pro, translate_clicked) ==
    ~is_pro /\ free_queries_used > FREE_TIER_MAX_QUERIES /\ translate_clicked

\* gate_blocks applied to signed-in users only
gate_blocks_signed_in(is_pro, translate_clicked) ==
    ~is_pro /\ Truthy(user_email) /\ free_queries_used >= FREE_TIER_MAX_QUERIES
    /\ translate_clicked

\* lines 304-308
gate_blocks(is_pro, translate_clicked) ==
    ~is_pro /\ free_queries_used >= FREE_TIER_MAX_QUERIES /\ translate_clicked

\* lines 309-317: the limit warning, then st.stop()
blocked(r) ==
    /\ run' = [r EXCEPT !.screen = "blocked", !.blocked = TRUE]
    /\ rerun_requested' = FALSE
    /\ query_code' = r.url_code
    /\ Provider(r, FALSE)
    /\ UNCHANGED <<free_queries_used, user_email, user_name, last_result, free_attempts>>

\* line 320
translation_runs(translate_clicked, sql_query) == translate_clicked /\ sql_query # <<>>

\* charged without the `if not is_pro` of line 321
charged_always(is_pro) == free_queries_used + 1

\* lines 321-322
charged(is_pro) == IF ~is_pro THEN free_queries_used + 1 ELSE free_queries_used

\* lines 325-329
shown(out) == IF Truthy(out.error) THEN "error" ELSE "success"

\* lines 320-340
translate(r) ==
    IF translation_runs(r.clicked, r.sql_query)
    THEN \E t \in TranslateOutcomes(r.sql_query, GEMINI_API_KEY) :    \* line 324
            /\ free_queries_used' = charged(r.is_pro)
            /\ free_attempts' = IF r.is_pro THEN free_attempts ELSE free_attempts + 1
            /\ run' = [r EXCEPT !.screen = "main", !.attempted = TRUE,
                                !.display = shown(t.out),
                                !.notice = (~r.is_pro /\ charged(r.is_pro) >= FREE_TIER_MAX_QUERIES)]
            /\ rerun_requested' = FALSE
            /\ query_code' = r.url_code
            /\ Provider(r, FALSE)
            /\ UNCHANGED <<user_email, user_name, last_result>>
    ELSE /\ run' = [r EXCEPT !.screen = "main"]
         /\ rerun_requested' = FALSE
         /\ query_code' = r.url_code
         /\ Provider(r, FALSE)
         /\ UNCHANGED <<free_queries_used, user_email, user_name, last_result, free_attempts>>

\* lines 253-340: the page behind the login wall
page(r, ev, q) ==
    IF ev = "signout" /\ Truthy(user_email) THEN sign_out(r)
    ELSE \E lic \in LicenseOutcomes(user_email) :                      \* line 264
         \E up \in (IF lic.ret THEN {Returned(<<>>, 0)} ELSE UpgradeOutcomes(user_email)) :  \* lines 266-277
            LET r2 == [r EXCEPT !.is_pro = lic.ret, !.license_io = lic.io,
                                !.payment_io = up.io,
                                !.signout_shown = Truthy(user_email),
                                !.clicked = (ev = "translate"),
                                !.sql_query = q]
            IN  IF ev = "clear" THEN clear(r2)
                ELSE IF gate_blocks(lic.ret, ev = "translate") THEN blocked(r2)
                ELSE translate(r2)

\* lines 172-190
main(ev, q, url_code) ==
    LET code == Strip(IF Truthy(url_code) THEN url_code.val ELSE <<>>)   \* line 173
    IN  IF code # <<>> /\ ~Truthy(user_email) /\ GOOGLE_CLIENT_ID # <<>> /\ Truthy(REDIRECT_URI)
        THEN \E x \in ExchangeOutcomes(code) :                           \* line 175
                LET r == [Fresh(ev, url_code) EXCEPT
                            !.posted = IF x.user.io > 0 THEN Some(code) ELSE None,
                            !.exchange = x]
                IN  IF Truthy(x.user.email) THEN login_succeeded(r, x.user)  \* line 176
                    ELSE IF login_wall THEN show_login(r)
                    ELSE page(r, ev, q)
        ELSE IF login_wall THEN show_login(Fresh(ev, url_code))
        ELSE page(Fresh(ev, url_code), ev, q)

----------------------------------------------------------------------------
(* The events that start a run *)

\* authorization codes are opaque one-time strings
Code(n) == <<ToString(n)>>

\* the page is shown as far as its buttons: the last run got past the wall
\* and did not end in st.rerun()
ButtonsShown == ~rerun_requested /\ run.screen \in {"main", "blocked"}

\* the browser loads the page, or a widget other than a button changes
Load ==
    /\ ~rerun_requested
    /\ main("load", <<>>, query_code)
    /\ UNCHANGED <<env, call, issued>>

\* st.rerun(): the script starts again with no button pressed
Rerun ==
    /\ rerun_requested
    /\ main("rerun", <<>>, query_code)
    /\ UNCHANGED <<env, call, issued>>

\* the identity provider redirects back with a code it has just issued
Callback ==
    /\ ~rerun_requested
    /\ issued < MaxCodes
    /\ issued' = issued + 1
    /\ main("callback", <<>>, Some(Code(issued + 1)))
    /\ UNCHANGED <<env, call>>

\* line 288: what the text area holds
Queries == TextsUpTo(MaxQueryLen)

\* line 297
ClickTranslate ==
    /\ ButtonsShown
    /\ \E q \in Queries : main("translate", q, query_code)
    /\ UNCHANGED <<env, call, issued>>

\* line 299
ClickClear ==
    /\ ButtonsShown
    /\ main("clear", <<>>, query_code)
    /\ UNCHANGED <<env, call, issued>>

\* line 257
ClickSignOut ==
    /\ ButtonsShown
    /\ run.signout_shown
    /\ main("signout", <<>>, query_code)
    /\ UNCHANGED <<env, call, issued>>

NoCall == [fn |-> "none"]

\* lines 156-161, with the process environment of lines 18-27
Init ==
    /\ env \in EnvSpace
    /\ free_queries_used = 0
    /\ user_email = None
    /\ user_name = None
    /\ last_result = [some |-> FALSE, unset |-> TRUE]
    /\ query_code = None
    /\ rerun_requested = FALSE
    /\ run = Fresh("none", None)
    /\ issued = 0
    /\ submitted = {}
    /\ exchanged_ok = {}
    /\ resubmitted = {}
    /\ free_attempts = 0
    /\ call = NoCall

Next ==
    \/ Load
    \/ Rerun
    \/ Callback
    \/ ClickTranslate
    \/ ClickClear
    \/ ClickSignOut

Spec == Init /\ [][Next]_vars

----------------------------------------------------------------------------
(* The functions called on their own, once, over every argument and every   *)
(* answer of their service                                                  *)

CallEmailHasLicense ==
    /\ call = NoCall
    /\ \E email \in OptTexts, resp \in LicenseResponses :
          call' = [fn |-> "email_has_license", email |-> email, resp |-> resp,
                   out |-> email_has_license(email, resp)]
    /\ UNCHANGED <<env, session_vars>>

CallUpgradeUrl ==
    /\ call = NoCall
    /\ \E email \in OptTexts, resp \in PaymentResponses :
          call' = [fn |-> "upgrade_url", email |-> email, resp |-> resp,
                   out |-> upgrade_url_for(email, resp)]
    /\ UNCHANGED <<env, session_vars>>

ApiKeys == {<<>>, <<SP>>, <<"k">>}

CallTranslateSql ==
    /\ call = NoCall
    /\ \E query \in Texts, api_key \in ApiKeys, svc \in ServiceResponses :
          call' = [fn |-> "translate_sql", query |-> query, api_key |-> api_key, svc |-> svc,
                   out |-> translate_sql(query, api_key, svc).out,
                   io |-> translate_sql(query, api_key, svc).io]
    /\ UNCHANGED <<env, session_vars>>

NextFn ==
    \/ CallEmailHasLicense
    \/ CallUpgradeUrl
    \/ CallTranslateSql

SpecFn == Init /\ [][NextFn]_vars

----------------------------------------------------------------------------
(* Properties of the session, checked under Spec.  In a step of Spec the     *)
(* primed run is the run of main() the step made.                            *)

\* C1 as stated: with quota = 1, every translate request of a session that is
\* not entitled and has used 0 free queries attempts a translation and leaves
\* free_queries_used = 1, whatever the translation gives; with 1 used it is
\* blocked, attempts nothing and leaves free_queries_used = 1.
C1_FirstAlwaysCharged ==
    [][(run'.clicked /\ ~run'.is_pro) =>
          IF free_queries_used = 0
          THEN run'.attempted /\ free_queries_used' = 1
          ELSE run'.blocked /\ ~run'.attempted /\ free_queries_used' = free_queries_used]_vars

\* C1 amended: the first translate request with a non-empty SQL box attempts a
\* translation and raises free_queries_used from 0 to 1, whether the translation
\* succeeds or fails; with an empty box nothing is attempted and the counter
\* stays 0; once 1 is used every translate request of the non-entitled session
\* is blocked before any attempt and the counter stays 1.
C1_FirstNonEmptyCharged ==
    [][(run'.clicked /\ ~run'.is_pro) =>
          IF free_queries_used = 0
          THEN IF run'.sql_query # <<>>
               THEN /\ run'.attempted /\ ~run'.blocked
                    /\ run'.display \in {"success", "error"}
                    /\ free_queries_used' = 1
               ELSE ~run'.attempted /\ ~run'.blocked /\ free_queries_used' = 0
          ELSE /\ run'.blocked /\ ~run'.attempted
               /\ free_queries_used = 1 /\ free_queries_used' = 1]_vars

\* the second request of a free session, blocked, after a first whose
\* translation failed
C1_Witness ==
    /\ run.blocked /\ run.clicked /\ ~run.is_pro
    /\ free_queries_used = 1 /\ free_attempts = 1

\* C2: a translate request made while the license check answers true is never
\* blocked, whatever free_queries_used is, and leaves it unchanged.
C2_EntitledNeverBlocked ==
    [][(run'.clicked /\ run'.is_pro) =>
          /\ ~run'.blocked
          /\ run'.screen = "main"
          /\ (run'.sql_query # <<>> => run'.attempted)
          /\ free_queries_used' = free_queries_used]_vars

\* an entitled request translated with the free quota already used up
C2_Witness ==
    /\ run.clicked /\ run.is_pro /\ run.attempted
    /\ free_queries_used >= FREE_TIER_MAX_QUERIES

\* C3: no step (translate request allowed or blocked, Clear, sign-out, OAuth
\* callback, rerun) lowers free_queries_used; sign-out unsets user_email and
\* user_name and keeps the counter.
C3_UsageNeverDecreases ==
    [][/\ free_queries_used' >= free_queries_used
       /\ (run'.event = "signout" =>
              /\ user_email' = None /\ user_name' = None
              /\ free_queries_used' = free_queries_used)]_vars

\* signed out with the free query already used
C3_Witness ==
    /\ run.event = "signout" /\ user_email = None /\ user_name = None
    /\ free_queries_used = 1

\* what the spec calls a failed exchange: the token call, the profile call,
\* a missing email, or an exception
TokenCallFails(r) ==
    r.net # "ok" \/ r.status # 200 \/ r.parse # "object" \/ JFalsy(r.fields.access_token)

ProfileCallFails(u) == u.net # "ok" \/ u.status # 200 \/ u.parse # "object"

EmailMissing(u) ==
    \/ JFalsy(u.fields.email)
    \/ u.fields.email.t = "str" /\ Strip(u.fields.email.s) = <<>>

FieldRaises(u) ==
    \E v \in {u.fields.email, u.fields.name} : ~JFalsy(v) /\ v.t # "str"

ExchangeFails(x) ==
    \/ TokenCallFails(x.token)
    \/ ProfileCallFails(x.profile)
    \/ EmailMissing(x.profile)
    \/ FieldRaises(x.profile)

\* C6: user_email becomes set only in a run whose code exchange succeeded and
\* gave a non-empty email, which is the email stored; a run whose exchange
\* failed at any step leaves user_email and user_name unset and shows the
\* login screen.
C6_LoginOnlyBySuccessfulExchange ==
    [][/\ (Truthy(user_email') /\ user_email' # user_email) =>
              /\ run'.exchange.called /\ ~ExchangeFails(run'.exchange)
              /\ user_email' = Some(Strip(run'.exchange.profile.fields.email.s))
              /\ Truthy(user_name')
       /\ (run'.exchange.called /\ ExchangeFails(run'.exchange)) =>
              /\ user_email' = None /\ user_name' = None
              /\ run'.screen = "login"]_vars

\* an exchange that reached the profile and found a blank email
C6_Witness ==
    /\ run.exchange.called
    /\ run.exchange.profile.net = "ok" /\ run.exchange.profile.status = 200
    /\ run.exchange.profile.parse = "object"
    /\ run.exchange.profile.fields.email = JStr(<<SP>>)
    /\ run.screen = "login" /\ user_email = None /\ user_name = None

\* C8: a code whose exchange succeeded is never posted to the identity
\* provider again, and is not left in the URL.
C8_CodeNotReused ==
    /\ resubmitted = {}
    /\ Truthy(query_code) => Strip(query_code.val) \notin exchanged_ok

\* logged in, signed out, and the page loaded again at the login screen
C8_Witness ==
    /\ exchanged_ok # {} /\ user_email = None
    /\ run.event = "load" /\ run.screen = "login"
    /\ submitted = exchanged_ok

\* C9: 0 <= free_queries_used <= quota, and no more than quota translations
\* were attempted while not entitled.
C9_UsageWithinQuota ==
    /\ free_queries_used \in 0..FREE_TIER_MAX_QUERIES
    /\ free_attempts \in 0..FREE_TIER_MAX_QUERIES

\* quota used, two logins behind the session, the request blocked
C9_Witness ==
    /\ free_queries_used = FREE_TIER_MAX_QUERIES
    /\ Cardinality(exchanged_ok) = MaxCodes
    /\ run.blocked

\* C10: with the login wall configured and user_email unset, a run stops at
\* the login screen (or at the st.rerun() of a login that succeeded): it
\* attempts no translation, looks up no license and no payment link and
\* leaves free_queries_used alone; and while user_email is unset no page with
\* buttons is shown.
C10_WallBeforeGate ==
    [][/\ (use_google_login /\ ~Truthy(user_email)) =>
              /\ run'.screen \in {"login", "rerun"}
              /\ (run'.screen = "rerun" => Truthy(user_email'))
              /\ ~run'.clicked /\ ~run'.attempted /\ ~run'.blocked
              /\ run'.license_io = 0 /\ run'.payment_io = 0
              /\ free_queries_used' = free_queries_used
       /\ (use_google_login /\ ~Truthy(user_email')) =>
              run'.screen \in {"login", "rerun"}]_vars

\* back at the login screen after a sign-out, the free query spent
C10_Witness ==
    /\ use_google_login /\ user_email = None /\ exchanged_ok # {}
    /\ run.event = "rerun" /\ run.screen = "login"
    /\ free_queries_used = 1

----------------------------------------------------------------------------
(* Properties of the functions, checked under SpecFn *)

LicenseAnswerBad(resp) ==
    resp.net \in {"unreachable", "timeout"} \/ resp.status # 200 \/ resp.parse # "object"

\* C4: email_has_license never raises; it returns false without a request
\* when the email is empty or no server is configured, false when the server
\* is unreachable, times out, answers another status than 200 or a malformed
\* body, and true only for a 200 whose body has valid exactly true.
C4_LicenseFailClosed ==
    call.fn = "email_has_license" =>
        /\ ~call.out.raised
        /\ (~Truthy(call.email) \/ LICENSE_SERVER_URL = <<>>) =>
               (~call.out.ret /\ call.out.io = 0)
        /\ LicenseAnswerBad(call.resp) => ~call.out.ret
        /\ call.out.ret =>
               /\ ~LicenseAnswerBad(call.resp)
               /\ call.resp.fields.valid.t = "bool" /\ call.resp.fields.valid.b

\* the request was made and timed out
C4_Witness ==
    /\ call.fn = "email_has_license"
    /\ Truthy(call.email) /\ LICENSE_SERVER_URL # <<>>
    /\ call.resp.net = "timeout"
    /\ call.out.io = 1 /\ ~call.out.ret

PaymentAnswerFails(resp) == resp.net # "ok" \/ resp.status # 200 \/ resp.parse # "object"

UrlEmpty(v) == IsPyNone(v) \/ (v.t = "str" /\ Strip(v.s) = <<>>)

UrlNotText(v) == v.t \in {"int", "bool"}

\* a text that is not a URL
UrlNotUrl(v) == v.t = "str" /\ Strip(v.s) \notin {<<>>, GoodUrl}

\* C5 as stated: the upgrade URL is resolved without raising; it is the static
\* URL when no server is configured or the email is absent, and when the call
\* fails, times out, answers non-200, or returns an empty or malformed URL.
C5_StaticOnAnyBadUrl ==
    call.fn = "upgrade_url" =>
        /\ ~call.out.raised
        /\ (~Truthy(call.email) \/ LICENSE_SERVER_URL = <<>>) =>
               (call.out.ret = RAZORPAY_UPGRADE_URL /\ call.out.io = 0)
        /\ (\/ PaymentAnswerFails(call.resp)
            \/ UrlEmpty(call.resp.fields.url)
            \/ UrlNotText(call.resp.fields.url)
            \/ UrlNotUrl(call.resp.fields.url)) => call.out.ret = RAZORPAY_UPGRADE_URL

\* C5 amended: as stated, except that of the URLs the server returns only an
\* empty (absent, null, blank) one or one that is not a string falls back to
\* the static URL; any other string is shown, trimmed, as it came.
C5_StaticOnFailureOrEmptyUrl ==
    call.fn = "upgrade_url" =>
        /\ ~call.out.raised
        /\ (~Truthy(call.email) \/ LICENSE_SERVER_URL = <<>>) =>
               (call.out.ret = RAZORPAY_UPGRADE_URL /\ call.out.io = 0)
        /\ (\/ PaymentAnswerFails(call.resp)
            \/ UrlEmpty(call.resp.fields.url)
            \/ UrlNotText(call.resp.fields.url)) => call.out.ret = RAZORPAY_UPGRADE_URL
        /\ (/\ Truthy(call.email) /\ LICENSE_SERVER_URL # <<>>
            /\ ~PaymentAnswerFails(call.resp)
            /\ call.resp.fields.url.t = "str"
            /\ Strip(call.resp.fields.url.s) # <<>>) =>
               call.out.ret = Strip(call.resp.fields.url.s)

\* the server answered 200 with a number for a URL
C5_Witness ==
    /\ call.fn = "upgrade_url"
    /\ Truthy(call.email) /\ LICENSE_SERVER_URL # <<>>
    /\ ~PaymentAnswerFails(call.resp)
    /\ call.resp.fields.url = JInt(5)
    /\ call.out.io = 1 /\ call.out.ret = RAZORPAY_UPGRADE_URL

\* C7: translate_sql gives exactly one of result and error; a service text
\* that is empty or blank gives the empty-response error; a result is a
\* non-empty trimmed text.
C7_BlankIsEmptyResponse ==
    call.fn = "translate_sql" =>
        /\ call.out.result.some # call.out.error.some
        /\ (call.io = 1 /\ call.svc.kind = "response" /\ Strip(call.svc.text) = <<>>) =>
               (call.out.result = None /\ call.out.error = Some(MsgEmpty))
        /\ call.out.result.some =>
               (call.out.result.val # <<>> /\ Strip(call.out.result.val) = call.out.result.val)

====
